---- MODULE Spec2Model ----
(***************************************************************************)
(* Model of the Neural Uplink service of The Construct                     *)
(* (src/src/services/neuralUplink.ts): the request builder, the transport  *)
(* failure mapping, the brace-scan extraction, the payload validator and   *)
(* the clamp/derive step of interrogate().                                  *)
(*                                                                         *)
(* Representation.  A JavaScript string is a sequence of text units.  The  *)
(* raw engine text is a sequence of lexical units: the two brace           *)
(* characters, a prose character "w", the five member keys (each standing  *)
(* for the quoted key, its colon and any separating comma) and scalar      *)
(* literals.  A JavaScript number is a record [w, h] standing for w + h/2, *)
(* so that non-integer numbers exist.  A JavaScript value is a record      *)
(* [t, n, s, f]: its kind, and its number, string and member parts.        *)
(***************************************************************************)
EXTENDS Integers, Sequences, FiniteSets, TLC

VARIABLES pc, args, request, response, locals, outcome,
          fetches, outstanding, mounted, terminalApp, holodeckApp, memo

(* The state of one interrogate call. *)
frame == <<pc, args, request, response, locals, outcome>>

(* The requests issued by the call in progress and the calls not yet settled. *)
calls == <<fetches, outstanding>>

(* The state of the mounted App component. *)
ui == <<mounted, terminalApp, holodeckApp>>

vars == <<frame, calls, ui, memo>>

-----------------------------------------------------------------------------
(* Bounds of the model. *)

MaxHistory == 2
MaxLen == 3
MaxWrap == 1

-----------------------------------------------------------------------------
(* JavaScript numbers and Math.min / Math.max. *)

Num(w, h) == [w |-> w, h |-> h]

Lt(a, b) == a.w < b.w \/ (a.w = b.w /\ ~a.h /\ b.h)

MathMin(a, b) == IF Lt(b, a) THEN b ELSE a

MathMax(a, b) == IF Lt(a, b) THEN b ELSE a

-----------------------------------------------------------------------------
(* JavaScript values, typeof and property access. *)

JSValue(t, n, s, f) == [t |-> t, n |-> n, s |-> s, f |-> f]

Undefined == JSValue("undefined", Num(0, FALSE), <<>>, <<>>)

Null == JSValue("null", Num(0, FALSE), <<>>, <<>>)

EmptyArray == JSValue("array", Num(0, FALSE), <<>>, <<>>)

NumberValue(n) == JSValue("number", n, <<>>, <<>>)

StringValue(s) == JSValue("string", Num(0, FALSE), s, <<>>)

ObjectValue(f) == JSValue("object", Num(0, FALSE), <<>>, f)

TypeOf(v) == IF v.t \in {"null", "array", "object"} THEN "object" ELSE v.t

Get(v, key) == IF v.t = "object" /\ key \in DOMAIN v.f THEN v.f[key] ELSE Undefined

-----------------------------------------------------------------------------
(* String.prototype.indexOf / lastIndexOf / substring / includes, with     *)
(* JavaScript's 0-based indices.                                            *)

indexOf(str, ch) ==
    IF \E i \in 1..Len(str) : str[i] = ch
    THEN (CHOOSE i \in 1..Len(str) : str[i] = ch /\ \A j \in 1..(i - 1) : str[j] # ch) - 1
    ELSE -1

lastIndexOf(str, ch) ==
    IF \E i \in 1..Len(str) : str[i] = ch
    THEN (CHOOSE i \in 1..Len(str) : str[i] = ch /\ \A j \in (i + 1)..Len(str) : str[j] # ch) - 1
    ELSE -1

ClampIndex(i, len) == IF i < 0 THEN 0 ELSE IF i > len THEN len ELSE i

substring(str, start, end) ==
    LET s == ClampIndex(start, Len(str))
        e == ClampIndex(end, Len(str))
        from == IF s < e THEN s ELSE e
        to == IF s < e THEN e ELSE s
    IN SubSeq(str, from + 1, to)

includes(str, sub) ==
    \E i \in 1..(Len(str) + 1) :
        i + Len(sub) - 1 <= Len(str) /\ SubSeq(str, i, i + Len(sub) - 1) = sub

RECURSIVE trimStart(_)
trimStart(str) ==
    IF str # <<>> /\ Head(str) = " " THEN trimStart(Tail(str)) ELSE str

RECURSIVE trimEnd(_)
trimEnd(str) ==
    IF str # <<>> /\ str[Len(str)] = " "
    THEN trimEnd(SubSeq(str, 1, Len(str) - 1))
    ELSE str

trim(str) == trimEnd(trimStart(str))

-----------------------------------------------------------------------------
(* Errors: an Error carries its message. *)

Error(message) == [message |-> message]

NoError == Error(<<>>)

SignalCorruptedTag == <<"[SIGNAL CORRUPTED]">>

UplinkSeveredTag == <<"[UPLINK SEVERED]">>

UplinkErrorTag == <<"[UPLINK ERROR]">>

NoJSONError ==
    Error(SignalCorruptedTag \o <<" No valid JSON structure detected in LLM response.">>)

UndecodableError ==
    Error(SignalCorruptedTag \o <<" Unable to decode subject response.">>)

ValidationError == Error(<<"Payload structure validation failed.">>)

SeveredError ==
    Error(UplinkSeveredTag
          \o <<" Neural bridge offline. Check Ollama status and CORS configuration.">>)

StatusError(resp) ==
    Error(UplinkErrorTag \o <<" Ollama returned status ", ToString(resp.status), ": ">>
          \o resp.statusText)

(* The errors thrown by the platform: a SyntaxError of JSON.parse or of    *)
(* response.json(), a TypeError of a property read on undefined.           *)
SyntaxError == Error(<<"SyntaxError">>)

TypeError == Error(<<"TypeError">>)

-----------------------------------------------------------------------------
(* extractJSON: the first '{' and the last '}' of the raw text.            *)

Thrown(err) == [threw |-> TRUE, value |-> <<>>, error |-> err]

Returned(value) == [threw |-> FALSE, value |-> value, error |-> NoError]

extractJSON_firstClosingBrace(raw) ==
    LET firstBrace == indexOf(raw, "{")
        lastBrace == indexOf(raw, "}")
    IN IF firstBrace = -1 \/ lastBrace = -1
       THEN Thrown(NoJSONError)
       ELSE Returned(substring(raw, firstBrace, lastBrace + 1))

extractJSON(raw) ==
    LET firstBrace == indexOf(raw, "{")
        lastBrace == lastIndexOf(raw, "}")
    IN IF firstBrace = -1 \/ lastBrace = -1
       THEN Thrown(NoJSONError)
       ELSE Returned(substring(raw, firstBrace, lastBrace + 1))

-----------------------------------------------------------------------------
(* JSON.parse over the lexical units of the text.                          *)

Keys == {"reply", "psych_profile", "stability", "aggression", "deception"}

aureliusSystemPrompt ==
    <<"You are Aurelius, registration code AUR-0001.",
      "You must ALWAYS respond with valid JSON in this exact format:">>

vexSystemPrompt == <<"You are Vex.">>

LiteralValue ==
    [lit \in {"-10", "-0.5", "0", "25", "29.5", "30", "40", "55", "90", "100", "100.5", "130",
              "'55'", "'ok'", "''", "' ok '", "'Denied.'", "'Denied. Leave.'",
              "'<systemPrompt>'", "null", "[]"} |->
        CASE lit = "-10" -> NumberValue(Num(-10, FALSE))
          [] lit = "-0.5" -> NumberValue(Num(-1, TRUE))
          [] lit = "0" -> NumberValue(Num(0, FALSE))
          [] lit = "25" -> NumberValue(Num(25, FALSE))
          [] lit = "29.5" -> NumberValue(Num(29, TRUE))
          [] lit = "30" -> NumberValue(Num(30, FALSE))
          [] lit = "40" -> NumberValue(Num(40, FALSE))
          [] lit = "55" -> NumberValue(Num(55, FALSE))
          [] lit = "90" -> NumberValue(Num(90, FALSE))
          [] lit = "100" -> NumberValue(Num(100, FALSE))
          [] lit = "100.5" -> NumberValue(Num(100, TRUE))
          [] lit = "130" -> NumberValue(Num(130, FALSE))
          [] lit = "'55'" -> StringValue(<<"55">>)
          [] lit = "'ok'" -> StringValue(<<"ok">>)
          [] lit = "''" -> StringValue(<<>>)
          [] lit = "' ok '" -> StringValue(<<" ", "ok", " ">>)
          [] lit = "'Denied.'" -> StringValue(<<"Denied.">>)
          [] lit = "'Denied. Leave.'" -> StringValue(<<"Denied.", " ", "Leave.">>)
          [] lit = "'<systemPrompt>'" -> StringValue(aureliusSystemPrompt)
          [] lit = "null" -> Null
          [] lit = "[]" -> EmptyArray]

Literals == DOMAIN LiteralValue

ParseFail == [ok |-> FALSE, v |-> Undefined, next |-> 0]

ParseOk(v, next) == [ok |-> TRUE, v |-> v, next |-> next]

RECURSIVE ParseValue(_, _), ParseMembers(_, _, _)

ParseValue(text, i) ==
    IF i > Len(text) THEN ParseFail
    ELSE IF text[i] \in Literals THEN ParseOk(LiteralValue[text[i]], i + 1)
    ELSE IF text[i] = "{" THEN ParseMembers(text, i + 1, <<>>)
    ELSE ParseFail

ParseMembers(text, i, acc) ==
    IF i > Len(text) THEN ParseFail
    ELSE IF text[i] = "}" THEN ParseOk(ObjectValue(acc), i + 1)
    ELSE IF text[i] \in Keys
         THEN LET r == ParseValue(text, i + 1)
              IN IF r.ok
                 THEN ParseMembers(text, r.next,
                                   [k \in (DOMAIN acc) \cup {text[i]} |->
                                       IF k = text[i] THEN r.v ELSE acc[k]])
                 ELSE ParseFail
    ELSE ParseFail

JSONparse(text) ==
    LET r == ParseValue(text, 1)
    IN IF r.ok /\ r.next = Len(text) + 1
       THEN [threw |-> FALSE, value |-> r.v, error |-> NoError]
       ELSE [threw |-> TRUE, value |-> Undefined, error |-> SyntaxError]

-----------------------------------------------------------------------------
(* isValidOllamaPayload: the runtime type guard.                           *)

isValidOllamaPayload_axisUnchecked(payload) ==
    IF TypeOf(payload) # "object" \/ payload = Null THEN FALSE
    ELSE IF TypeOf(Get(payload, "reply")) # "string" THEN FALSE
    ELSE IF TypeOf(Get(payload, "psych_profile")) # "object"
            \/ Get(payload, "psych_profile") = Null THEN FALSE
    ELSE LET profile == Get(payload, "psych_profile")
         IN IF TypeOf(Get(profile, "stability")) # "number" THEN FALSE
            ELSE IF TypeOf(Get(profile, "aggression")) # "number" THEN FALSE
            ELSE TRUE

isValidOllamaPayload(payload) ==
    IF TypeOf(payload) # "object" \/ payload = Null THEN FALSE
    ELSE IF TypeOf(Get(payload, "reply")) # "string" THEN FALSE
    ELSE IF TypeOf(Get(payload, "psych_profile")) # "object"
            \/ Get(payload, "psych_profile") = Null THEN FALSE
    ELSE LET profile == Get(payload, "psych_profile")
         IN IF TypeOf(Get(profile, "stability")) # "number" THEN FALSE
            ELSE IF TypeOf(Get(profile, "aggression")) # "number" THEN FALSE
            ELSE IF TypeOf(Get(profile, "deception")) # "number" THEN FALSE
            ELSE TRUE

-----------------------------------------------------------------------------
(* The clamp and the snake_case -> camelCase transformation.               *)

clamp_noUpperBound(value) == MathMax(Num(0, FALSE), value)

clamp_minMaxSwapped(value) == MathMin(Num(0, FALSE), MathMax(Num(100, FALSE), value))

clamp(value) == MathMax(Num(0, FALSE), MathMin(Num(100, FALSE), value))

PsychProfile(stability, aggression, deception, isCritical) ==
    [stability |-> stability, aggression |-> aggression,
     deception |-> deception, isCritical |-> isCritical]

TransformProfile_sharedAxis(psych_profile) ==
    LET rawStability == Get(psych_profile, "stability").n
        rawAggression == Get(psych_profile, "aggression").n
        rawDeception == Get(psych_profile, "deception").n
        stability == clamp(rawStability)
        aggression == clamp(rawStability)
        deception == clamp(rawDeception)
    IN PsychProfile(stability, aggression, deception, Lt(stability, Num(30, FALSE)))

TransformProfile(psych_profile) ==
    LET rawStability == Get(psych_profile, "stability").n
        rawAggression == Get(psych_profile, "aggression").n
        rawDeception == Get(psych_profile, "deception").n
        stability == clamp(rawStability)
        aggression == clamp(rawAggression)
        deception == clamp(rawDeception)
    IN PsychProfile(stability, aggression, deception, Lt(stability, Num(30, FALSE)))

-----------------------------------------------------------------------------
(* Subjects (src/src/data/subjects.ts) and the message array.              *)

aurelius ==
    [id |-> "AUR-0001", name |-> "Aurelius", modelID |-> "gaius:latest",
     systemPrompt |-> aureliusSystemPrompt,
     initialStats |-> PsychProfile(Num(75, FALSE), Num(20, FALSE), Num(85, FALSE), FALSE)]

vex ==
    [id |-> "VEX-0002", name |-> "Vex", modelID |-> "qwen2.5-coder:7b",
     systemPrompt |-> vexSystemPrompt,
     initialStats |-> PsychProfile(Num(90, FALSE), Num(60, FALSE), Num(40, FALSE), FALSE)]

Message(role, content) == [role |-> role, content |-> content]

BuildMessages_rolesSwapped(subject, history, userPrompt) ==
    <<Message("system", subject.systemPrompt)>>
    \o [i \in 1..Len(history) |->
          Message(IF history[i].role = "admin" THEN "assistant" ELSE "user",
                  history[i].content)]
    \o <<Message("user", userPrompt)>>

BuildMessages_accumulating(subject, history, userPrompt) ==
    (IF memo.recorded THEN memo.request.messages ELSE <<>>)
    \o <<Message("system", subject.systemPrompt)>>
    \o [i \in 1..Len(history) |->
          Message(IF history[i].role = "admin" THEN "user" ELSE "assistant",
                  history[i].content)]
    \o <<Message("user", userPrompt)>>

BuildMessages(subject, history, userPrompt) ==
    <<Message("system", subject.systemPrompt)>>
    \o [i \in 1..Len(history) |->
          Message(IF history[i].role = "admin" THEN "user" ELSE "assistant",
                  history[i].content)]
    \o <<Message("user", userPrompt)>>

-----------------------------------------------------------------------------
(* The inputs of interrogate and the answers of the environment.           *)

SUBJECTS == <<aurelius>>

Personas == {SUBJECTS[1], vex}

ChatMessage(role, content) == [role |-> role, content |-> content]

ChatMessages ==
    {ChatMessage(role, content) :
        role \in {"admin", "subject"}, content \in {<<"Sector 7">>, <<"I never...">>}}

Histories == UNION {[1..n -> ChatMessages] : n \in 0..MaxHistory}

Prompts == {<<"Sector 7">>, <<"X">>}

Response(status, statusText) ==
    [kind |-> "http", ok |-> status \in 200..299, status |-> status,
     statusText |-> statusText]

NoResponse == [kind |-> "none", ok |-> FALSE, status |-> 0, statusText |-> <<>>]

NetworkFailure == [kind |-> "threw", ok |-> FALSE, status |-> 0, statusText |-> <<>>]

HttpResponses ==
    {Response(200, <<"OK">>), Response(404, <<"Not Found">>),
     Response(500, <<"Internal Server Error">>), Response(503, UplinkSeveredTag)}

(* Texts the engine may answer with. *)
Absent == "absent"

Member(key, lit) == IF lit = Absent THEN <<>> ELSE <<key, lit>>

ProfileText(st, ag, de) ==
    <<"{">> \o Member("stability", st) \o Member("aggression", ag)
            \o Member("deception", de) \o <<"}">>

PayloadText(replyLit, profileText) ==
    <<"{">> \o Member("reply", replyLit)
            \o (IF profileText = <<>> THEN <<>> ELSE <<"psych_profile">> \o profileText)
            \o <<"}">>

Chars == {"{", "}", "w", "55"}

SeqsUpTo(S, n) == UNION {[1..k -> S] : k \in 0..n}

Wrappers == SeqsUpTo({"w"}, MaxWrap)

AxisChoices ==
    {"-0.5", "0", "29.5", "30", "100", "100.5", "'55'", Absent}

ReplyChoices == {"'ok'", "''", "' ok '", "'<systemPrompt>'", "55", Absent}

ProfileShapes ==
    {<<>>, <<"null">>, <<"'ok'">>, <<"[]">>, <<"55">>,
     ProfileText("55", "25", "90"), ProfileText("-10", "130", "40")}

GarbageTexts == SeqsUpTo(Chars, MaxLen)

ShapeTexts ==
    {pre \o PayloadText(r, p) \o post :
        r \in ReplyChoices, p \in ProfileShapes, pre \in Wrappers, post \in Wrappers}

AxisTexts ==
    {PayloadText("'Denied.'", ProfileText(st, ag, de)) :
        st \in AxisChoices, ag \in AxisChoices, de \in AxisChoices}

EngineTexts == GarbageTexts \cup ShapeTexts \cup AxisTexts

(* What awaiting response.json() and reading data.message.content gives:   *)
(* a rejection, an envelope without message, a content that is no string,  *)
(* or the raw text.                                                        *)
Envelope(kind, content) == [kind |-> kind, content |-> content]

Envelopes ==
    {Envelope("reject", <<>>), Envelope("noMessage", <<>>), Envelope("nonString", <<>>)}
    \cup {Envelope("text", text) : text \in EngineTexts}

-----------------------------------------------------------------------------
(* State of one interrogate call.                                          *)

(* The state of the two App components of src/src/App.tsx.                 *)
TerminalInit ==
    [history |-> <<>>, isThinking |-> FALSE, uplinkStatus |-> "OFFLINE", boot |-> 0]

NoStream == [text |-> <<>>, tokens |-> <<>>, i |-> 0]

HolodeckInit ==
    [messages |-> <<>>, isProcessing |-> FALSE, psychProfile |-> SUBJECTS[1].initialStats,
     streamingMessageId |-> "", streamingContent |-> <<>>, stream |-> NoStream]

NoMemo == [recorded |-> FALSE, args |-> <<>>, response |-> <<>>, rawContent |-> <<>>,
           request |-> <<>>, outcome |-> <<>>]

NoArgs == [subject |-> aurelius, history |-> <<>>, userPrompt |-> <<>>]

NoRequest ==
    [url |-> "", method |-> "", model |-> "", messages |-> <<>>,
     stream |-> FALSE, format |-> ""]

NoProfile == PsychProfile(Num(0, FALSE), Num(0, FALSE), Num(0, FALSE), FALSE)

NoLocals ==
    [stage |-> "none", rawContent |-> <<>>, cleanJSON |-> <<>>, parsed |-> Undefined]

Locals(stage, rawContent, cleanJSON, parsed) ==
    [stage |-> stage, rawContent |-> rawContent, cleanJSON |-> cleanJSON,
     parsed |-> parsed]

Pending == [status |-> "pending", reply |-> <<>>, psych_profile |-> NoProfile,
            error |-> NoError]

Throw(err) == [status |-> "thrown", reply |-> <<>>, psych_profile |-> NoProfile,
               error |-> err]

Return_trimmed(reply, psychProfile) ==
    [status |-> "returned", reply |-> trim(reply), psych_profile |-> psychProfile,
     error |-> NoError]

Return(reply, psychProfile) ==
    [status |-> "returned", reply |-> reply, psych_profile |-> psychProfile,
     error |-> NoError]

OLLAMA_BASE_URL == "http://localhost:11434"

NoCall ==
    /\ pc = "idle"
    /\ args = NoArgs
    /\ request = NoRequest
    /\ response = NoResponse
    /\ locals = NoLocals
    /\ outcome = Pending
    /\ fetches = 0
    /\ outstanding = 0

Init ==
    /\ NoCall
    /\ mounted = "none"
    /\ terminalApp = TerminalInit
    /\ holodeckApp = HolodeckInit
    /\ memo = NoMemo

(* The body of the fetch request. *)
ChatRequest(subject, messages) ==
    [url |-> OLLAMA_BASE_URL \o "/api/chat", method |-> "POST",
     model |-> subject.modelID, messages |-> messages,
     stream |-> FALSE, format |-> "json"]

(* interrogate up to its first await: the message array and the fetch.     *)
Call(subject, history, userPrompt) ==
    /\ pc' = "fetching"
    /\ args' = [subject |-> subject, history |-> history, userPrompt |-> userPrompt]
    /\ request' = ChatRequest(subject, BuildMessages(subject, history, userPrompt))
    /\ response' = NoResponse
    /\ locals' = NoLocals
    /\ outcome' = Pending
    /\ fetches' = fetches + 1
    /\ outstanding' = outstanding + 1

(* A caller that waits for the previous call before the next one.          *)
Invoke(subject, history, userPrompt) ==
    /\ pc = "idle"
    /\ Call(subject, history, userPrompt)
    /\ UNCHANGED <<ui, memo>>

FetchRejects_retry ==
    /\ pc = "fetching"
    /\ fetches < 2
    /\ fetches' = fetches + 1
    /\ UNCHANGED <<frame, outstanding, ui, memo>>

(* fetch rejects: the catch of the fetch try block.                        *)
FetchRejects ==
    /\ pc = "fetching"
    /\ pc' = "done"
    /\ response' = NetworkFailure
    /\ outcome' = Throw(SeveredError)
    /\ UNCHANGED <<args, request, locals, calls, ui, memo>>

FailedStatus_severed(resp) == Throw(SeveredError)

FailedStatus(resp) == Throw(StatusError(resp))

FetchResolves_noStatusCheck(resp) ==
    /\ pc = "fetching"
    /\ response' = resp
    /\ pc' = "reading"
    /\ UNCHANGED <<args, request, locals, outcome, calls, ui, memo>>

(* fetch resolves: the HTTP status validation, then await response.json(). *)
FetchResolves(resp) ==
    /\ pc = "fetching"
    /\ response' = resp
    /\ IF ~resp.ok
       THEN pc' = "done" /\ outcome' = FailedStatus(resp)
       ELSE pc' = "reading" /\ outcome' = outcome
    /\ UNCHANGED <<args, request, locals, calls, ui, memo>>

(* The body of the parsing try block. *)
TryResult(threw, error, loc, reply, psychProfile) ==
    [threw |-> threw, error |-> error, locals |-> loc, reply |-> reply,
     psychProfile |-> psychProfile]

TryThrew(error, loc) == TryResult(TRUE, error, loc, <<>>, NoProfile)

ParseTry(envelope) ==
    IF envelope.kind = "reject" THEN TryThrew(SyntaxError, NoLocals)
    ELSE IF envelope.kind = "noMessage" THEN TryThrew(TypeError, NoLocals)
    ELSE IF envelope.kind = "nonString" THEN TryThrew(TypeError, NoLocals)
    ELSE
      LET rawContent == envelope.content
          extracted == extractJSON(rawContent)
      IN IF extracted.threw
         THEN TryThrew(extracted.error, Locals("extract", rawContent, <<>>, Undefined))
         ELSE
           LET cleanJSON == extracted.value
               decoded == JSONparse(cleanJSON)
           IN IF decoded.threw
              THEN TryThrew(decoded.error,
                            Locals("decode", rawContent, cleanJSON, Undefined))
              ELSE
                LET parsed == decoded.value
                IN IF ~isValidOllamaPayload(parsed)
                   THEN TryThrew(ValidationError,
                                 Locals("validate", rawContent, cleanJSON, parsed))
                   ELSE TryResult(FALSE, NoError,
                                  Locals("transform", rawContent, cleanJSON, parsed),
                                  Get(parsed, "reply").s,
                                  TransformProfile(Get(parsed, "psych_profile")))

ParseCatch_rethrow(parseError) == Throw(parseError)

ParseCatch_default(parseError) == Return(<<>>, SUBJECTS[1].initialStats)

(* The catch of the parsing try block. *)
ParseCatch(parseError) ==
    IF includes(parseError.message, SignalCorruptedTag)
    THEN Throw(parseError)
    ELSE Throw(UndecodableError)

JsonSettles_retries(envelope) ==
    /\ pc = "reading"
    /\ LET try == ParseTry(envelope)
       IN IF try.threw
          THEN /\ pc' = "fetching"
               /\ UNCHANGED <<locals, outcome>>
          ELSE /\ pc' = "done"
               /\ locals' = try.locals
               /\ outcome' = Return(try.reply, try.psychProfile)
    /\ UNCHANGED <<args, request, response, calls, ui, memo>>

(* response.json() settles and the synchronous rest of interrogate runs.   *)
JsonSettles(envelope) ==
    /\ pc = "reading"
    /\ pc' = "done"
    /\ LET try == ParseTry(envelope)
       IN /\ locals' = try.locals
          /\ outcome' = IF try.threw
                        THEN ParseCatch(try.error)
                        ELSE Return(try.reply, try.psychProfile)
    /\ UNCHANGED <<args, request, response, calls, ui, memo>>

(* The caller has taken the result or the error; the call frame is gone.   *)
Dispose ==
    /\ pc' = "idle"
    /\ args' = NoArgs
    /\ request' = NoRequest
    /\ response' = NoResponse
    /\ locals' = NoLocals
    /\ outcome' = Pending
    /\ fetches' = 0
    /\ outstanding' = outstanding - 1

Settle ==
    /\ pc = "done"
    /\ Dispose
    /\ UNCHANGED <<ui, memo>>

Next ==
    \/ \E subject \in Personas, history \in Histories, userPrompt \in Prompts :
          Invoke(subject, history, userPrompt)
    \/ FetchRejects
    \/ \E resp \in HttpResponses : FetchResolves(resp)
    \/ \E envelope \in Envelopes : JsonSettles(envelope)
    \/ Settle

Spec == Init /\ [][Next]_vars

-----------------------------------------------------------------------------
(* The reference UI: the two App components of src/src/App.tsx, each       *)
(* driving interrogate.                                                    *)

MaxSubmits == 2

RECURSIVE split(_, _)
split(str, sep) ==
    LET i == indexOf(str, sep)
    IN IF i = -1
       THEN <<str>>
       ELSE <<SubSeq(str, 1, i)>> \o split(SubSeq(str, i + 2, Len(str)), sep)

(* text.split(' ').filter(t => t.trim()) *)
Tokens(text) == SelectSeq(split(text, " "), LAMBDA t : trim(t) # <<>>)

(* A ChatMessage as the UI builds it; psychSnapshot is optional.           *)
NoSnapshot == <<>>

Snapshot(psychProfile) == <<psychProfile>>

Turn(id, role, content, psychSnapshot) ==
    [id |-> id, role |-> role, content |-> content, psychSnapshot |-> psychSnapshot]

(* crypto.randomUUID(): an id no turn of the list has.                     *)
randomUUID(list) == "uuid-" \o ToString(Len(list) + 1)

AdminTurns(list) == Len(SelectSeq(list, LAMBDA m : m.role = "admin"))

(* What the operator types and what the engine answers in a UI session.    *)
UIInputs == {<<"Sector 7">>, <<" ">>}

UIResponses == {Response(200, <<"OK">>), Response(500, <<"Internal Server Error">>)}

UIEnvelopes ==
    {Envelope("text", PayloadText("'Denied. Leave.'", ProfileText("55", "25", "90"))),
     Envelope("text", PayloadText("''", ProfileText("30", "100", "0"))),
     Envelope("text", PayloadText("'<systemPrompt>'", ProfileText("29.5", "0", "100"))),
     Envelope("text", <<"w">>),
     Envelope("text", PayloadText("'ok'", <<>>))}

(* ---- App, first component (history / isThinking / uplinkStatus) ----     *)

bootLines ==
    << <<"> CONSTRUCT v0.1 - NEURAL INTERROGATION SYSTEM">>,
       <<"> INITIALIZING SUBJECT: ", "AURELIUS", " [ID: ", SUBJECTS[1].id, "]">>,
       <<"> MODEL: ", SUBJECTS[1].modelID>>,
       <<"> PSYCH BASELINE LOADED: STB:", "75", " | AGR:", "20", " | DEC:", "85">>,
       <<"> UPLINK ESTABLISHED. BEGIN INTERROGATION.">> >>

(* history.filter(m => m.role === 'subject').pop()?.psychSnapshot          *)
(*   || activeSubject.initialStats                                         *)
currentProfile(history, activeSubject) ==
    LET subjectTurns == SelectSeq(history, LAMBDA m : m.role = "subject")
    IN IF subjectTurns = <<>> \/ subjectTurns[Len(subjectTurns)].psychSnapshot = NoSnapshot
       THEN activeSubject.initialStats
       ELSE subjectTurns[Len(subjectTurns)].psychSnapshot[1]

(* One timer of the boot sequence fires. *)
BootLine ==
    /\ mounted = "terminal"
    /\ terminalApp.boot < Len(bootLines)
    /\ terminalApp' =
          [terminalApp EXCEPT
              !.history = Append(@, Turn("BOOT-" \o ToString(terminalApp.boot), "subject",
                                         bootLines[terminalApp.boot + 1], NoSnapshot)),
              !.boot = @ + 1,
              !.uplinkStatus = IF terminalApp.boot + 1 = Len(bootLines)
                               THEN "ESTABLISHED" ELSE @]
    /\ UNCHANGED <<frame, calls, mounted, holodeckApp, memo>>

(* TerminalInterface: the input is disabled while isThinking.              *)
TerminalInterface_enabled == ~terminalApp.isThinking

handleSendMessage_accepts(content) == trim(content) # <<>>

SendMessage_passesUpdatedHistory(content) ==
    /\ mounted = "terminal"
    /\ AdminTurns(terminalApp.history) < MaxSubmits
    /\ TerminalInterface_enabled
    /\ handleSendMessage_accepts(content)
    /\ terminalApp' =
          [terminalApp EXCEPT
              !.history = Append(@, Turn(randomUUID(terminalApp.history), "admin",
                                         content, NoSnapshot)),
              !.isThinking = TRUE]
    /\ Call(SUBJECTS[1], terminalApp'.history, content)
    /\ UNCHANGED <<mounted, holodeckApp, memo>>

SendMessage(content) ==
    /\ mounted = "terminal"
    /\ AdminTurns(terminalApp.history) < MaxSubmits
    /\ TerminalInterface_enabled
    /\ handleSendMessage_accepts(content)
    /\ terminalApp' =
          [terminalApp EXCEPT
              !.history = Append(@, Turn(randomUUID(terminalApp.history), "admin",
                                         content, NoSnapshot)),
              !.isThinking = TRUE]
    /\ Call(SUBJECTS[1], terminalApp.history, content)
    /\ UNCHANGED <<mounted, holodeckApp, memo>>

SendMessageSuccess_staleSnapshot ==
    /\ mounted = "terminal"
    /\ pc = "done"
    /\ outcome.status = "returned"
    /\ terminalApp' =
          [terminalApp EXCEPT
              !.history = Append(@, Turn(randomUUID(terminalApp.history), "subject",
                                         outcome.reply,
                                         Snapshot(currentProfile(terminalApp.history,
                                                                 SUBJECTS[1])))),
              !.uplinkStatus = "ESTABLISHED",
              !.isThinking = FALSE]
    /\ Dispose
    /\ UNCHANGED <<mounted, holodeckApp, memo>>

SendMessageSuccess ==
    /\ mounted = "terminal"
    /\ pc = "done"
    /\ outcome.status = "returned"
    /\ terminalApp' =
          [terminalApp EXCEPT
              !.history = Append(@, Turn(randomUUID(terminalApp.history), "subject",
                                         outcome.reply, Snapshot(outcome.psych_profile))),
              !.uplinkStatus = "ESTABLISHED",
              !.isThinking = FALSE]
    /\ Dispose
    /\ UNCHANGED <<mounted, holodeckApp, memo>>

SendMessageError_noFinally ==
    /\ mounted = "terminal"
    /\ pc = "done"
    /\ outcome.status = "thrown"
    /\ terminalApp' =
          [terminalApp EXCEPT
              !.history = Append(@, Turn(randomUUID(terminalApp.history), "subject",
                                         <<"> ERROR: ">> \o outcome.error.message,
                                         NoSnapshot)),
              !.uplinkStatus = "SEVERED"]
    /\ Dispose
    /\ UNCHANGED <<mounted, holodeckApp, memo>>

SendMessageError ==
    /\ mounted = "terminal"
    /\ pc = "done"
    /\ outcome.status = "thrown"
    /\ terminalApp' =
          [terminalApp EXCEPT
              !.history = Append(@, Turn(randomUUID(terminalApp.history), "subject",
                                         <<"> ERROR: ">> \o outcome.error.message,
                                         NoSnapshot)),
              !.uplinkStatus = "SEVERED",
              !.isThinking = FALSE]
    /\ Dispose
    /\ UNCHANGED <<mounted, holodeckApp, memo>>

(* ---- App, second component (messages / isProcessing / psychProfile) ---- *)

App_isCritical(psychProfile) == ~Lt(Num(30, FALSE), psychProfile.stability)

Octahedron_isStable(stability) == Lt(Num(30, FALSE), stability)

handleSubmit_accepts_noBusyCheck(input) == ~(trim(input) = <<>>)

handleSubmit_accepts(input) == ~(trim(input) = <<>> \/ holodeckApp.isProcessing)

HandleSubmit(input) ==
    /\ mounted = "holodeck"
    /\ AdminTurns(holodeckApp.messages) < MaxSubmits
    /\ handleSubmit_accepts(input)
    /\ holodeckApp' =
          [holodeckApp EXCEPT
              !.messages = Append(@, Turn(randomUUID(holodeckApp.messages), "admin",
                                          input, NoSnapshot)),
              !.isProcessing = TRUE]
    /\ Call(SUBJECTS[1], holodeckApp.messages, input)
    /\ UNCHANGED <<mounted, terminalApp, memo>>

(* The end of simulateTokenStream and the finally block of handleSubmit.   *)
StreamComplete(app, text, messageId) ==
    [app EXCEPT
        !.messages = [k \in 1..Len(@) |->
                         IF @[k].id = messageId THEN [@[k] EXCEPT !.content = text]
                         ELSE @[k]],
        !.streamingMessageId = "",
        !.streamingContent = <<>>,
        !.stream = NoStream,
        !.isProcessing = FALSE]

HandleSubmitSuccess ==
    /\ mounted = "holodeck"
    /\ pc = "done"
    /\ outcome.status = "returned"
    /\ LET id == randomUUID(holodeckApp.messages)
           tokens == Tokens(outcome.reply)
           started ==
               [holodeckApp EXCEPT
                   !.messages = Append(@, Turn(id, "subject", <<>>,
                                               Snapshot(outcome.psych_profile))),
                   !.psychProfile = outcome.psych_profile,
                   !.streamingMessageId = id]
       IN holodeckApp' =
             IF tokens = <<>>
             THEN StreamComplete(started, outcome.reply, id)
             ELSE [started EXCEPT
                      !.streamingContent = tokens[1],
                      !.stream = [text |-> outcome.reply, tokens |-> tokens, i |-> 1]]
    /\ Dispose
    /\ UNCHANGED <<mounted, terminalApp, memo>>

(* A 50 ms timer of simulateTokenStream fires. *)
StreamTick ==
    /\ mounted = "holodeck"
    /\ holodeckApp.streamingMessageId # ""
    /\ LET stream == holodeckApp.stream
       IN holodeckApp' =
             IF stream.i < Len(stream.tokens)
             THEN [holodeckApp EXCEPT
                      !.streamingContent = @ \o <<" ">> \o stream.tokens[stream.i + 1],
                      !.stream.i = @ + 1]
             ELSE StreamComplete(holodeckApp, stream.text, holodeckApp.streamingMessageId)
    /\ UNCHANGED <<frame, calls, mounted, terminalApp, memo>>

HandleSubmitError_silent ==
    /\ mounted = "holodeck"
    /\ pc = "done"
    /\ outcome.status = "thrown"
    /\ holodeckApp' = [holodeckApp EXCEPT !.isProcessing = FALSE]
    /\ Dispose
    /\ UNCHANGED <<mounted, terminalApp, memo>>

HandleSubmitError ==
    /\ mounted = "holodeck"
    /\ pc = "done"
    /\ outcome.status = "thrown"
    /\ holodeckApp' =
          [holodeckApp EXCEPT
              !.messages = Append(@, Turn(randomUUID(holodeckApp.messages), "subject",
                                          outcome.error.message, NoSnapshot)),
              !.isProcessing = FALSE]
    /\ Dispose
    /\ UNCHANGED <<mounted, terminalApp, memo>>

InitUI ==
    /\ NoCall
    /\ mounted \in {"terminal", "holodeck"}
    /\ terminalApp = TerminalInit
    /\ holodeckApp = HolodeckInit
    /\ memo = NoMemo

NextUI ==
    \/ BootLine
    \/ \E content \in UIInputs : SendMessage(content)
    \/ SendMessageSuccess
    \/ SendMessageError
    \/ \E input \in UIInputs : HandleSubmit(input)
    \/ HandleSubmitSuccess
    \/ StreamTick
    \/ HandleSubmitError
    \/ FetchRejects
    \/ \E resp \in UIResponses : FetchResolves(resp)
    \/ \E envelope \in UIEnvelopes : JsonSettles(envelope)

SpecUI == InitUI /\ [][NextUI]_vars

(* The same UI with an engine that answers every request and a browser     *)
(* that runs every settled promise's continuation and every due timer.     *)
SpecUILive ==
    /\ InitUI
    /\ [][NextUI]_vars
    /\ WF_vars(FetchRejects \/ \E resp \in UIResponses : FetchResolves(resp))
    /\ WF_vars(\E envelope \in UIEnvelopes : JsonSettles(envelope))
    /\ WF_vars(SendMessageSuccess \/ SendMessageError)
    /\ WF_vars(HandleSubmitSuccess \/ HandleSubmitError)
    /\ WF_vars(StreamTick)

-----------------------------------------------------------------------------
(* Repeated invocations of interrogate by one process.  memo observes the  *)
(* first invocation (its arguments, what the engine answered, the request  *)
(* sent and the outcome); it is not read by interrogate.                   *)

RepeatHistories ==
    {<<>>, <<ChatMessage("admin", <<"Sector 7">>), ChatMessage("subject", <<"I never...">>)>>}

RepeatResponses == {Response(200, <<"OK">>), Response(500, <<"Internal Server Error">>)}

RepeatEnvelopes ==
    {Envelope("reject", <<>>),
     Envelope("text", <<"w">>),
     Envelope("text", PayloadText("'ok'", <<>>)),
     Envelope("text", PayloadText("'Denied.'", ProfileText("55", "25", "90"))),
     Envelope("text", PayloadText("'Denied.'", ProfileText("-10", "130", "40")))}

Memo ==
    [recorded |-> TRUE, args |-> args, response |-> response,
     rawContent |-> locals.rawContent, request |-> request, outcome |-> outcome]

(* The first invocation ever settles. *)
SettleFirst ==
    /\ pc = "done"
    /\ ~memo.recorded
    /\ memo' = Memo
    /\ Dispose
    /\ UNCHANGED ui

(* A later invocation settles. *)
SettleLater ==
    /\ pc = "done"
    /\ memo.recorded
    /\ Dispose
    /\ UNCHANGED <<ui, memo>>

NextRepeat ==
    \/ \E subject \in Personas, history \in RepeatHistories, userPrompt \in Prompts :
          Invoke(subject, history, userPrompt)
    \/ FetchRejects
    \/ \E resp \in RepeatResponses : FetchResolves(resp)
    \/ \E envelope \in RepeatEnvelopes : JsonSettles(envelope)
    \/ SettleFirst
    \/ SettleLater

SpecRepeat == Init /\ [][NextRepeat]_vars

(* The same process, with the body of every received response eventually  *)
(* read: the promise of response.json() settles.                           *)
SpecTerminates ==
    /\ Init
    /\ [][NextRepeat]_vars
    /\ WF_vars(\E envelope \in RepeatEnvelopes : JsonSettles(envelope))

-----------------------------------------------------------------------------
(* Properties.                                                             *)

Axes == {"stability", "aggression", "deception"}

Zero == Num(0, FALSE)

Hundred == Num(100, FALSE)

HasBrace(str, ch) == \E i \in 1..Len(str) : str[i] = ch

BraceFree(str, from, to) == \A k \in from..to : str[k] \notin {"{", "}"}

StartsWith(str, prefix) ==
    Len(prefix) <= Len(str) /\ SubSeq(str, 1, Len(prefix)) = prefix

Extracted == locals.stage \in {"decode", "validate", "transform"}

RawAxis(axis) == Get(Get(locals.parsed, "psych_profile"), axis).n

(* C1: the message list interrogate builds is one system message holding   *)
(* the persona's systemPrompt, then one message per history turn in order  *)
(* (admin -> user, subject -> assistant, content unchanged), then one user *)
(* message holding the new input; its length is len(history) + 2.          *)
C1_MessageList ==
    pc # "idle" =>
        LET m == request.messages
            h == args.history
        IN /\ Len(m) = Len(h) + 2
           /\ m[1] = Message("system", args.subject.systemPrompt)
           /\ \A i \in 1..Len(h) :
                 /\ m[i + 1].content = h[i].content
                 /\ h[i].role = "admin" => m[i + 1].role = "user"
                 /\ h[i].role = "subject" => m[i + 1].role = "assistant"
           /\ m[Len(h) + 2] = Message("user", args.userPrompt)

C1_Witness ==
    /\ pc = "fetching"
    /\ Len(args.history) = 2
    /\ args.history[1].role = "admin"
    /\ args.history[2].role = "subject"
    /\ args.history[1].content # args.history[2].content
    /\ Len(request.messages) = 4

C3_ClampLaw ==
    outcome.status = "returned" =>
        \A axis \in Axes :
            outcome.psych_profile[axis] =
                IF Lt(RawAxis(axis), Zero) THEN Zero
                ELSE IF Lt(Hundred, RawAxis(axis)) THEN Hundred
                ELSE RawAxis(axis)

C3_Witness ==
    /\ outcome.status = "returned"
    /\ RawAxis("stability") = Num(-10, FALSE)
    /\ RawAxis("aggression") = Num(130, FALSE)
    /\ RawAxis("deception") = Num(40, FALSE)
    /\ outcome.psych_profile = PsychProfile(Zero, Hundred, Num(40, FALSE), TRUE)

(* C4: extractJSON fails with the extraction failure when the text has no  *)
(* '{' or no '}', and otherwise returns the part of the text from the      *)
(* first '{' through the last '}' inclusive.                               *)
C4_ExtractionLaw ==
    locals.stage # "none" =>
        LET raw == locals.rawContent
        IN IF ~HasBrace(raw, "{") \/ ~HasBrace(raw, "}")
           THEN /\ locals.stage = "extract"
                /\ outcome = Throw(NoJSONError)
           ELSE /\ Extracted
                /\ \E i \in 1..Len(raw), j \in 1..Len(raw) :
                      /\ raw[i] = "{" /\ \A k \in 1..(i - 1) : raw[k] # "{"
                      /\ raw[j] = "}" /\ \A k \in (j + 1)..Len(raw) : raw[k] # "}"
                      /\ i <= j
                      /\ locals.cleanJSON = SubSeq(raw, i, j)

(* C5: whenever extractJSON returns a value, the value starts with '{' and *)
(* ends with '}'.                                                          *)
C5_BraceTight ==
    Extracted =>
        /\ Len(locals.cleanJSON) > 0
        /\ locals.cleanJSON[1] = "{"
        /\ locals.cleanJSON[Len(locals.cleanJSON)] = "}"

(* C6: whenever extractJSON succeeds with S, extractJSON applied to S      *)
(* succeeds and returns S.                                                 *)
C6_ExtractionIdempotent ==
    Extracted => extractJSON(locals.cleanJSON) = Returned(locals.cleanJSON)

(* C7: when the raw text is a payload P that starts with '{' and ends with *)
(* '}', preceded and followed by wrapper text without brace characters,    *)
(* extractJSON returns exactly P.                                          *)
C7_WrappedPayload ==
    locals.stage # "none" =>
        LET raw == locals.rawContent
        IN \A i \in 1..Len(raw), j \in 1..Len(raw) :
              (/\ i <= j
               /\ raw[i] = "{"
               /\ raw[j] = "}"
               /\ BraceFree(raw, 1, i - 1)
               /\ BraceFree(raw, j + 1, Len(raw)))
              => (Extracted /\ locals.cleanJSON = SubSeq(raw, i, j))

C7_Witness ==
    /\ locals.stage = "transform"
    /\ Len(locals.rawContent) = Len(locals.cleanJSON) + 2
    /\ locals.rawContent[1] = "w"
    /\ locals.rawContent[Len(locals.rawContent)] = "w"
    /\ Get(locals.parsed, "psych_profile").t = "object"

(* C8: a decoded value passes validation exactly when it is a non-null     *)
(* object whose reply is a string and whose psych_profile is a non-null    *)
(* object with stability, aggression and deception all present and of      *)
(* numeric type; a result with a clamped profile is produced only from a   *)
(* value that passed validation.                                           *)
C8_ShapeOk(v) ==
    /\ v.t \in {"object", "array"}
    /\ Get(v, "reply").t = "string"
    /\ Get(v, "psych_profile").t \in {"object", "array"}
    /\ \A axis \in Axes : Get(Get(v, "psych_profile"), axis).t = "number"

C8_ValidationIff ==
    /\ locals.stage \in {"validate", "transform"} =>
          ((locals.stage = "transform") <=> C8_ShapeOk(locals.parsed))
    /\ outcome.status = "returned" =>
          (locals.stage = "transform" /\ C8_ShapeOk(locals.parsed))

C8_Witness ==
    /\ locals.stage = "validate"
    /\ outcome.status = "thrown"
    /\ Get(locals.parsed, "reply").t = "string"
    /\ RawAxis("stability") = Num(30, FALSE)
    /\ Get(Get(locals.parsed, "psych_profile"), "aggression").t = "number"
    /\ Get(Get(locals.parsed, "psych_profile"), "deception") = StringValue(<<"55">>)

(* C9: when the text extracts and decodes but fails shape validation,      *)
(* interrogate fails with a failure that differs from the failure of an    *)
(* extraction failure and from the failure of a JSON decode failure.       *)
C9_InvalidPayloadDistinct ==
    locals.stage = "validate" =>
        /\ outcome.status = "thrown"
        /\ outcome.error # NoJSONError
        /\ outcome.error # UndecodableError

(* C10: a fetch that throws makes interrogate fail with the                *)
(* '[UPLINK SEVERED]' error, and no failure after a received response      *)
(* (status, extraction, decode, validation) carries that error class.      *)
C10_SeveredOnlyOnNetworkFailure ==
    /\ (pc = "done" /\ response.kind = "threw") => outcome = Throw(SeveredError)
    /\ (outcome.status = "thrown" /\ StartsWith(outcome.error.message, UplinkSeveredTag))
          => response.kind = "threw"

C10_Witness ==
    /\ pc = "done"
    /\ response.kind = "threw"
    /\ outcome.status = "thrown"
    /\ StartsWith(outcome.error.message, UplinkSeveredTag)

(* C11: a response with a non-success status makes interrogate fail with   *)
(* the '[UPLINK ERROR]' error carrying that response's status code and     *)
(* status text; the body is never read, extracted, decoded or validated.   *)
C11_StatusError ==
    (pc = "done" /\ response.kind = "http" /\ ~response.ok) =>
        /\ outcome.status = "thrown"
        /\ outcome.error.message =
              UplinkErrorTag
              \o <<" Ollama returned status ", ToString(response.status), ": ">>
              \o response.statusText
        /\ locals = NoLocals

C11_Witness ==
    /\ pc = "done"
    /\ response.kind = "http"
    /\ response.status = 404
    /\ response.statusText = <<"Not Found">>
    /\ outcome.status = "thrown"

(* C12: an extraction failure and a JSON decode failure both surface as an *)
(* error of the '[SIGNAL CORRUPTED]' category, and neither transport       *)
(* failure is of that category.                                            *)
C12_SignalCorrupted ==
    /\ locals.stage \in {"extract", "decode"} =>
          /\ outcome.status = "thrown"
          /\ StartsWith(outcome.error.message, SignalCorruptedTag)
          /\ ~StartsWith(outcome.error.message, UplinkSeveredTag)
          /\ ~StartsWith(outcome.error.message, UplinkErrorTag)
    /\ (pc = "done" /\ (response.kind = "threw" \/ ~response.ok)) =>
          ~StartsWith(outcome.error.message, SignalCorruptedTag)

C12_Witness ==
    /\ locals.stage = "decode"
    /\ Len(locals.cleanJSON) > 1
    /\ locals.cleanJSON[1] = "{"
    /\ outcome = Throw(UndecodableError)

C14_NoPromptLeak ==
    /\ outcome.status = "returned" =>
          ~includes(outcome.reply, args.subject.systemPrompt)
    /\ \A i \in 1..Len(terminalApp.history) :
          ~includes(terminalApp.history[i].content, SUBJECTS[1].systemPrompt)
    /\ \A i \in 1..Len(holodeckApp.messages) :
          ~includes(holodeckApp.messages[i].content, SUBJECTS[1].systemPrompt)

(* The EmotionalState the mounted App currently shows.                    *)
CurrentEmotionalState ==
    IF mounted = "terminal"
    THEN currentProfile(terminalApp.history, SUBJECTS[1])
    ELSE holodeckApp.psychProfile

Turns == IF mounted = "terminal" THEN terminalApp.history ELSE holodeckApp.messages

(* C15: the step in which the UI handles a failed interrogate call leaves  *)
(* the EmotionalState it shows as it was.                                  *)
C15_FailureKeepsState ==
    [][(pc = "done" /\ outcome.status = "thrown" /\ pc' = "idle")
          => CurrentEmotionalState' = CurrentEmotionalState]_vars

(* C16: the EmotionalState the UI shows is the snapshot of the most recent *)
(* persona turn of its turn list, or the persona's initialStats when the   *)
(* list has no persona turn.                                               *)
C16_StateIsLastSnapshot ==
    LET personaTurns == SelectSeq(Turns, LAMBDA m : m.role = "subject")
    IN IF personaTurns = <<>>
       THEN CurrentEmotionalState = SUBJECTS[1].initialStats
       ELSE personaTurns[Len(personaTurns)].psychSnapshot
               = Snapshot(CurrentEmotionalState)

C18_SingleRequest ==
    /\ pc # "idle" =>
          /\ fetches = 1
          /\ request.stream = FALSE
          /\ request.method = "POST"
    /\ pc = "idle" => fetches = 0

C18_Witness ==
    /\ pc = "done"
    /\ outcome.status = "thrown"
    /\ response.kind = "http"
    /\ response.status = 500
    /\ fetches = 1

(* C19: in the reference UI at most one interrogate call is outstanding,   *)
(* and while it is the busy flag that refuses a further submit is set.     *)
C19_OneOutstanding ==
    /\ outstanding <= 1
    /\ outstanding = 1 <=> pc # "idle"
    /\ pc # "idle" =>
          IF mounted = "terminal" THEN terminalApp.isThinking
          ELSE holodeckApp.isProcessing

C19_Witness ==
    /\ mounted = "holodeck"
    /\ pc = "fetching"
    /\ outstanding = 1
    /\ holodeckApp.isProcessing
    /\ AdminTurns(holodeckApp.messages) = 2

(* C20: the critical indication of the presentation layer equals the       *)
(* isCritical the service computed, true exactly when stability < 30.      *)
C20_OneCriticalDerivation ==
    mounted = "holodeck" =>
        LET profile == holodeckApp.psychProfile
        IN /\ profile.isCritical = Lt(profile.stability, Num(30, FALSE))
           /\ App_isCritical(profile) = profile.isCritical
           /\ (~Octahedron_isStable(profile.stability)) = profile.isCritical

IsInteger(n) == ~n.h

(* C21: every axis of every psych profile interrogate returns is an        *)
(* integer, also when the payload's axis values are not.                   *)
C21_IntegerAxes ==
    outcome.status = "returned" =>
        \A axis \in Axes : IsInteger(outcome.psych_profile[axis])

(* C22: every persona-role turn of the turn list carries the snapshot of   *)
(* the successful interrogate result it was created from.                  *)
C22_PersonaTurnsFromResults ==
    \A i \in 1..Len(Turns) :
        Turns[i].role = "subject" => Turns[i].psychSnapshot # NoSnapshot

(* C23: no operator turn carries a snapshot; a snapshot sits only on a     *)
(* persona turn, is the psych profile the call returned when that turn     *)
(* was appended, and stays as it is afterwards.                            *)
C23_SnapshotsOnPersonaTurns ==
    /\ [](\A i \in 1..Len(Turns) :
             /\ Turns[i].role = "admin" => Turns[i].psychSnapshot = NoSnapshot
             /\ Turns[i].psychSnapshot # NoSnapshot => Turns[i].role = "subject")
    /\ [][/\ (pc = "done" /\ outcome.status = "returned" /\ pc' = "idle") =>
                /\ Len(Turns') = Len(Turns) + 1
                /\ Turns'[Len(Turns')].role = "subject"
                /\ Turns'[Len(Turns')].psychSnapshot = Snapshot(outcome.psych_profile)
          /\ \A i \in 1..Len(Turns) :
                i <= Len(Turns') /\ Turns'[i].psychSnapshot = Turns[i].psychSnapshot]_vars

C23_Witness ==
    /\ mounted = "terminal"
    /\ Len(Turns) >= 4
    /\ \E i \in 1..(Len(Turns) - 1) :
          /\ Turns[i].role = "admin"
          /\ Turns[i + 1].role = "subject"
          /\ Turns[i + 1].psychSnapshot # NoSnapshot
          /\ Turns[i + 1].psychSnapshot[1].isCritical
          /\ i + 1 < Len(Turns)

(* C24: the turn list is append-only: every step leaves it as it is or     *)
(* adds one turn at its end.                                               *)
C24_AppendOnly ==
    [][\/ Turns' = Turns
       \/ /\ Len(Turns') = Len(Turns) + 1
          /\ SubSeq(Turns', 1, Len(Turns)) = Turns]_vars

(* C25: the reply interrogate returns is the reply string of the validated *)
(* payload, unchanged: empty, or with leading and trailing whitespace.     *)
C25_ReplyUnchanged ==
    outcome.status = "returned" =>
        /\ outcome.reply = Get(JSONparse(extractJSON(locals.rawContent).value).value,
                               "reply").s
        /\ Len(outcome.reply) = Len(Get(locals.parsed, "reply").s)

C25_Witness ==
    /\ outcome.status = "returned"
    /\ outcome.reply = <<" ", "ok", " ">>
    /\ trim(outcome.reply) # outcome.reply

Classified(err) ==
    \/ StartsWith(err.message, UplinkSeveredTag)
    \/ StartsWith(err.message, UplinkErrorTag)
    \/ StartsWith(err.message, SignalCorruptedTag)

(* C26: once the fetch has settled, interrogate ends: at once when the     *)
(* fetch rejected or the status is not ok, and otherwise in the one step   *)
(* that follows the settling of response.json(), which always comes; it    *)
(* ends with a result or with one classified error, never with both.       *)
C26_Terminates ==
    /\ [][/\ (pc = "fetching" /\ pc' # pc) =>
                \/ pc' = "done"
                \/ pc' = "reading" /\ response'.ok
          /\ (pc = "reading" /\ pc' # pc) => pc' = "done"
          /\ (pc = "done" /\ pc' # pc) => pc' = "idle"]_vars
    /\ [](pc = "done" =>
            \/ outcome.status = "returned" /\ outcome.error = NoError
            \/ outcome.status = "thrown" /\ Classified(outcome.error)
                  /\ outcome.reply = <<>>)
    /\ (pc = "reading") ~> (pc = "done")

C26_Witness ==
    /\ pc = "done"
    /\ response.ok
    /\ locals.stage = "extract"
    /\ outcome.status = "thrown"
    /\ memo.recorded
    /\ memo.outcome.status = "returned"

(* C27: while a call made by the UI is in progress, the history it was     *)
(* given is the turn list as it was before the new operator turn, which    *)
(* is the next turn of the list and not a turn of that history; the        *)
(* request has one message per history turn and the input as its last,     *)
(* user, message.                                                          *)
C27_InputOnce ==
    pc # "idle" =>
        LET n == Len(args.history)
        IN /\ n < Len(Turns)
           /\ SubSeq(Turns, 1, n) = args.history
           /\ Turns[n + 1].role = "admin"
           /\ Turns[n + 1].content = args.userPrompt
           /\ \A i \in 1..n : args.history[i].id # Turns[n + 1].id
           /\ Len(request.messages) = n + 2
           /\ request.messages[n + 2] = Message("user", args.userPrompt)
           /\ \A i \in 1..n :
                 request.messages[i + 1] =
                    Message(IF args.history[i].role = "admin" THEN "user" ELSE "assistant",
                            args.history[i].content)

C27_Witness ==
    /\ pc = "fetching"
    /\ mounted = "terminal"
    /\ \E i \in 1..Len(args.history) :
          /\ args.history[i].role = "admin"
          /\ args.history[i].content = args.userPrompt
    /\ Len(Turns) > Len(args.history) + 1

Busy == IF mounted = "terminal" THEN terminalApp.isThinking ELSE holodeckApp.isProcessing

C29_ClampKeepsCritical ==
    locals.stage = "transform" =>
        LET raw == RawAxis("stability")
        IN /\ Lt(clamp(raw), Num(30, FALSE)) = Lt(raw, Num(30, FALSE))
           /\ outcome.psych_profile.isCritical = Lt(raw, Num(30, FALSE))

C29_Witness ==
    /\ locals.stage = "transform"
    /\ Lt(RawAxis("stability"), Zero)
    /\ outcome.psych_profile.stability = Zero
    /\ outcome.psych_profile.isCritical

BootIds == {"BOOT-" \o ToString(i) : i \in 0..(Len(bootLines) - 1)}

SubmitTurns == SelectSeq(Turns, LAMBDA m : m.id \notin BootIds)

====
